---- MODULE Spec2Model ----
(***************************************************************************)
(* Snippetbox: the snippet repository (internal/models/snippets.go:        *)
(* NewSnippetModel, Insert, Get, Latest), the error helpers of package     *)
(* main (serverError, clientError, notFound) and its request handlers      *)
(* (snippetView, snippetCreate), over the MySQL table `snippets`.          *)
(*                                                                         *)
(* Time is counted in whole days: NOW() is the variable `now`, and         *)
(* DATE_ADD(NOW(), INTERVAL n DAY) is now + n.  Go strings that the code   *)
(* parses or formats (the id parameter, the redirect URL, the numbers of   *)
(* a response body) are sequences of one-character strings; opaque texts   *)
(* (titles, contents, messages) are TLA+ strings.  A storage fault is an   *)
(* input of the call it hits.                                              *)
(***************************************************************************)
EXTENDS Integers, Sequences, FiniteSets, TLC

VARIABLES
    pc,        \* "startup" before NewSnippetModel, then "serving" or "fatal"
    model,     \* the *SnippetModel: <<>> (nil) or <<[DB, InsertStmt, GetStmt, LatestStmt]>>
    snippets,  \* the rows of the MySQL table snippets
    nextId,    \* the table's AUTO_INCREMENT counter
    now,       \* the database server's clock, in days
    last,      \* the last step: the call or request, its inputs and all it returned
    redirect,  \* the redirect the client last received: <<>> or <<[location, at, added]>>
    inflight   \* the requests served concurrently: for each, where its handler is

vars == <<pc, model, snippets, nextId, now, last, redirect, inflight>>

----------------------------------------------------------------------------
(* Bounds of the model *)

\* the clock stops advancing here when the repository is called directly
MaxNow == 1
\* the clock stops advancing here when requests are served
MaxWebNow == 7
\* rows inserted during a run, beyond those the table held at startup
MaxInserts == 2
\* create requests served during a run
MaxCreates == 1
\* rows an earlier run of the application left in the table
PreloadRows == 9
\* requests served concurrently
MaxRequests == 2

----------------------------------------------------------------------------
(* Errors.  A Go error value is a record: `kind` is its identity (what     *)
(* errors.Is compares), `msg` is what Error() returns.                     *)

NilErr == [kind |-> "nil", msg |-> ""]

\* var ErrNoRecord = errors.New("models: no matching record found")
ErrNoRecord == [kind |-> "models.ErrNoRecord", msg |-> "models: no matching record found"]

\* database/sql's sentinel, returned by Row.Scan when the query has no row
ErrNoRows == [kind |-> "sql.ErrNoRows", msg |-> "sql: no rows in result set"]

\* strconv's error for a string that is not a decimal integer
ErrSyntax == [kind |-> "strconv.ErrSyntax", msg |-> "invalid syntax"]

\* the error a failing driver call returns; `what` names the failing call
DriverErr(what) == [kind |-> "driver", msg |-> what]

\* errors.Is(err, target) for the unwrapped errors above
ErrorsIs(err, target) == err.kind = target.kind

----------------------------------------------------------------------------
(* The texts the callers supply *)

\* the placeholder title and content of snippetCreate
SnailTitle == "O snail"
SnailContent == "O snail\nClimb Mount Fuji,\nBut slowly, slowly!\n\n- Kobayashi Issa"
\* expires := 7
SnailExpires == 7

\* (title, content) pairs of direct calls of Insert
InsertTexts == {<<"T", "C">>}
\* expiry, in days, of direct calls of Insert
InsertDays == {-1, 0, 1}

----------------------------------------------------------------------------
(* The storage engine: the three statements NewSnippetModel prepares *)

\* LIMIT 10 of the latest statement
LatestLimit == 10

\* INSERT INTO snippets(title, content, created, expires)
\* VALUES(?, ?, NOW(), DATE_ADD(NOW(), INTERVAL ? DAY)): the row stored, with
\* the AUTO_INCREMENT id `nid`, at server time `t`
InsertRow(nid, t, title, content, days) ==
    [id |-> nid, title |-> title, content |-> content,
     created |-> t, expires |-> t + days]

\* SELECT id, title, content, created, expires: the columns of one row, in
\* the order of the select list
SelectColumns(r) == <<r.id, r.title, r.content, r.created, r.expires>>

\* GetWhere with the expiry test left out of the WHERE clause
GetWhereIgnoringExpiry(tbl, t, id) == {r \in tbl : r.id = id}

\* ... FROM snippets WHERE expires > NOW() AND id = ?: the rows selected
GetWhere(tbl, t, id) == {r \in tbl : r.expires > t /\ r.id = id}

\* ... FROM snippets (the latest statement has no WHERE clause)
LatestWhere(tbl, t) == tbl

\* ORDER BY id DESC: the rows of a set, highest id first
RECURSIVE OrderByIdDesc(_)
OrderByIdDesc(S) ==
    IF S = {} THEN <<>>
    ELSE LET top == CHOOSE r \in S : \A q \in S : q.id <= r.id
         IN  <<top>> \o OrderByIdDesc(S \ {top})

\* Limit cutting one row too late
LimitOffByOne(seq, n) == IF Len(seq) <= n + 1 THEN seq ELSE SubSeq(seq, 1, n + 1)

\* LIMIT n
Limit(seq, n) == IF Len(seq) <= n THEN seq ELSE SubSeq(seq, 1, n)

\* the result set of the get statement, as column tuples
GetQuery(tbl, t, id) ==
    LET sel == OrderByIdDesc(GetWhere(tbl, t, id))
    IN  [i \in 1..Len(sel) |-> SelectColumns(sel[i])]

\* the result set of the latest statement, as column tuples
LatestQuery(tbl, t) ==
    LET sel == Limit(OrderByIdDesc(LatestWhere(tbl, t)), LatestLimit)
    IN  [i \in 1..Len(sel) |-> SelectColumns(sel[i])]

----------------------------------------------------------------------------
(* The repository: internal/models/snippets.go *)

\* Scan with the title and content destinations in each other's place
ScanTitleContentSwapped(cols) ==
    [ID |-> cols[1], title |-> cols[3], content |-> cols[2],
     created |-> cols[4], expires |-> cols[5]]

\* Scan(&s.ID, &s.title, &s.content, &s.created, &s.expires): the columns
\* are copied into the fields by position
Scan(cols) ==
    [ID |-> cols[1], title |-> cols[2], content |-> cols[3],
     created |-> cols[4], expires |-> cols[5]]

\* int(id): int is 64 bits wide on the platforms the server is built for,
\* so the conversion from int64 keeps the value
IntOfInt64(id) == id

\* where a storage fault may hit each call
PrepareFaults == 0..3
InsertFaults == {"none", "exec", "lastInsertId"}
GetFaults == {"none", "query", "scan"}
LatestFaultKinds == {"none", "query", "scan", "rowsErr"}

\* NewSnippetModel(db): `fault` = k > 0 makes the k-th Prepare fail.
\* Result: the model (<<>> is nil) and the error.
NewSnippetModel(db, fault) ==
    IF fault = 1 THEN [m |-> <<>>, err |-> DriverErr("prepare insert")]
    ELSE IF fault = 2 THEN [m |-> <<>>, err |-> DriverErr("prepare get")]
    ELSE IF fault = 3 THEN [m |-> <<>>, err |-> DriverErr("prepare latest")]
    ELSE [m |-> <<[DB |-> db, InsertStmt |-> "insertStmt",
                   GetStmt |-> "getStmt", LatestStmt |-> "latestStmt"]>>,
          err |-> NilErr]

\* Insert(title, content, expires) on table `tbl` with counter `nid` at server
\* time `t`.  Result: the id and error returned, and the table and counter
\* the call leaves.
Insert(tbl, nid, t, title, content, expires, fault) ==
    IF fault = "exec"
    THEN [id |-> 0, err |-> DriverErr("exec failed"),
          snippets |-> tbl, nextId |-> nid]
    ELSE LET stored == tbl \cup {InsertRow(nid, t, title, content, expires)}
         IN  IF fault = "lastInsertId"
             THEN [id |-> 0, err |-> DriverErr("LastInsertId failed"),
                   snippets |-> stored, nextId |-> nid + 1]
             ELSE [id |-> IntOfInt64(nid), err |-> NilErr,
                   snippets |-> stored, nextId |-> nid + 1]

\* row.Scan of database/sql: the query's error, else ErrNoRows when the result
\* set is empty, else the first row scanned
RowScan(res, fault) ==
    IF fault = "query" THEN [s |-> <<>>, err |-> DriverErr("query failed")]
    ELSE IF Len(res) = 0 THEN [s |-> <<>>, err |-> ErrNoRows]
    ELSE IF fault = "scan" THEN [s |-> <<>>, err |-> DriverErr("scan failed")]
    ELSE [s |-> <<Scan(res[1])>>, err |-> NilErr]

\* Get turning every error of Scan into ErrNoRecord
GetAlwaysNoRecord(tbl, t, id, fault) ==
    LET scanned == RowScan(GetQuery(tbl, t, id), fault)
    IN  IF scanned.err # NilErr
        THEN [s |-> <<>>, err |-> ErrNoRecord]
        ELSE [s |-> scanned.s, err |-> NilErr]

\* Get(id).  Result: the snippet (<<>> is nil, <<s>> points to s) and the error.
Get(tbl, t, id, fault) ==
    LET scanned == RowScan(GetQuery(tbl, t, id), fault)
    IN  IF scanned.err # NilErr
        THEN IF ErrorsIs(scanned.err, ErrNoRows)
             THEN [s |-> <<>>, err |-> ErrNoRecord]
             ELSE [s |-> <<>>, err |-> scanned.err]
        ELSE [s |-> scanned.s, err |-> NilErr]

\* Latest without the check of rows.Err() after the loop: the rows mapped
\* before the cursor failed are returned as the whole result
LatestIgnoringRowsErr(tbl, t, fault) ==
    LET res == LatestQuery(tbl, t)
        all == [i \in 1..Len(res) |-> Scan(res[i])]
    IN  IF fault.kind = "query"
        THEN [isNil |-> TRUE, items |-> <<>>, err |-> DriverErr("query failed")]
        ELSE IF fault.kind = "scan" /\ fault.at < Len(res)
        THEN [isNil |-> TRUE, items |-> <<>>, err |-> DriverErr("scan failed")]
        ELSE IF fault.kind = "rowsErr" /\ fault.at <= Len(res)
        THEN [isNil |-> FALSE, items |-> SubSeq(all, 1, fault.at), err |-> NilErr]
        ELSE [isNil |-> FALSE, items |-> all, err |-> NilErr]

\* Latest with the slice declared but not initialised (var snippets
\* []*Snippet): with no row appended the slice returned is nil
LatestNilWhenEmpty(tbl, t, fault) ==
    LET res == LatestQuery(tbl, t)
        all == [i \in 1..Len(res) |-> Scan(res[i])]
    IN  IF fault.kind = "query"
        THEN [isNil |-> TRUE, items |-> <<>>, err |-> DriverErr("query failed")]
        ELSE IF fault.kind = "scan" /\ fault.at < Len(res)
        THEN [isNil |-> TRUE, items |-> <<>>, err |-> DriverErr("scan failed")]
        ELSE IF fault.kind = "rowsErr" /\ fault.at <= Len(res)
        THEN [isNil |-> TRUE, items |-> <<>>, err |-> DriverErr("rows.Err")]
        ELSE [isNil |-> Len(res) = 0, items |-> all, err |-> NilErr]

\* Latest().  `fault` = [kind, at]: "query" fails the Query call; "scan" fails
\* the Scan of row at+1; "rowsErr" ends the cursor after `at` rows with
\* rows.Err() set.  Result: the slice (isNil, items) and the error.
Latest(tbl, t, fault) ==
    LET res == LatestQuery(tbl, t)
        all == [i \in 1..Len(res) |-> Scan(res[i])]
    IN  IF fault.kind = "query"
        THEN [isNil |-> TRUE, items |-> <<>>, err |-> DriverErr("query failed")]
        ELSE IF fault.kind = "scan" /\ fault.at < Len(res)
        THEN [isNil |-> TRUE, items |-> <<>>, err |-> DriverErr("scan failed")]
        ELSE IF fault.kind = "rowsErr" /\ fault.at <= Len(res)
        THEN [isNil |-> TRUE, items |-> <<>>, err |-> DriverErr("rows.Err")]
        ELSE [isNil |-> FALSE, items |-> all, err |-> NilErr]

----------------------------------------------------------------------------
(* Decimal text: fmt's %d and strconv.Atoi *)

DigitChars == <<"0", "1", "2", "3", "4", "5", "6", "7", "8", "9">>

IsDigit(c) == \E d \in 1..10 : DigitChars[d] = c

DigitVal(c) == (CHOOSE d \in 1..10 : DigitChars[d] = c) - 1

\* the decimal digits of n >= 0, most significant first
RECURSIVE Digits(_)
Digits(n) ==
    IF n < 10 THEN <<DigitChars[n + 1]>>
    ELSE Digits(n \div 10) \o <<DigitChars[(n % 10) + 1]>>

\* fmt.Sprintf("%d", n)
FormatInt(n) == IF n < 0 THEN <<"-">> \o Digits(-n) ELSE Digits(n)

\* the value of a non-empty sequence of digits
RECURSIVE DigitsValue(_)
DigitsValue(ds) ==
    IF Len(ds) = 0 THEN 0
    ELSE 10 * DigitsValue(SubSeq(ds, 1, Len(ds) - 1)) + DigitVal(ds[Len(ds)])

\* strconv.Atoi(s): an optional sign, then one or more digits; anything else
\* is a syntax error with value 0.  (The strings of the model are too short
\* to leave the range of int.)
Atoi(s) ==
    LET signed == Len(s) > 0 /\ s[1] \in {"+", "-"}
        ds == IF signed THEN Tail(s) ELSE s
    IN  IF Len(ds) = 0 \/ \E i \in 1..Len(ds) : ~IsDigit(ds[i])
        THEN [n |-> 0, err |-> ErrSyntax]
        ELSE [n |-> IF s[1] = "-" THEN -DigitsValue(ds) ELSE DigitsValue(ds),
              err |-> NilErr]

----------------------------------------------------------------------------
(* Requests and responses *)

\* a URL is its path, then "?" and the query's key, "=" and value characters
ViewPath == "/snippet/view"

\* ViewURL with the id in the path instead of the query
ViewURLIdInPath(id) == <<ViewPath, "/">> \o FormatInt(id)

\* fmt.Sprintf("/snippet/view?id=%d", id)
ViewURL(id) == <<ViewPath, "?", "id", "=">> \o FormatInt(id)

\* the printable characters of ASCII, bytes 32 to 126 in order; the double
\* quote, the backslash and the backquote are written by their names
PrintableASCII ==
    << " ", "!", "quote", "#", "$", "%", "&", "'", "(", ")", "*", "+", ",", "-", ".", "/",
       "0", "1", "2", "3", "4", "5", "6", "7", "8", "9", ":", ";", "<", "=", ">", "?",
       "@", "A", "B", "C", "D", "E", "F", "G", "H", "I", "J", "K", "L", "M", "N", "O",
       "P", "Q", "R", "S", "T", "U", "V", "W", "X", "Y", "Z", "[", "backslash", "]", "^", "_",
       "backquote", "a", "b", "c", "d", "e", "f", "g", "h", "i", "j", "k", "l", "m", "n", "o",
       "p", "q", "r", "s", "t", "u", "v", "w", "x", "y", "z", "{", "|", "}", "~" >>

\* the character of byte b; a byte that is not printable ASCII is no digit,
\* sign or blank, and is written as one string that is none of them
ByteChar(b) == IF b >= 32 /\ b <= 126 THEN PrintableASCII[b - 31] ELSE "other byte"

\* net/url ishex and unhex: the hexadecimal digits and their values
UpperHex == <<"0", "1", "2", "3", "4", "5", "6", "7", "8", "9", "A", "B", "C", "D", "E", "F">>
LowerHex == <<"0", "1", "2", "3", "4", "5", "6", "7", "8", "9", "a", "b", "c", "d", "e", "f">>
HexChars == {UpperHex[i] : i \in 1..16} \cup {LowerHex[i] : i \in 1..16}
ishex(c) == c \in HexChars
unhex(c) == (CHOOSE i \in 1..16 : UpperHex[i] = c \/ LowerHex[i] = c) - 1

\* net/url unescape, first pass: every "%" is followed by two hexadecimal
\* digits.  (The code scans from the left and steps over the two digits; as
\* "%" is no digit, that is the same as testing every "%".)
EscapesValid(s) ==
    \A i \in 1..Len(s) :
        s[i] = "%" => /\ i + 2 <= Len(s)
                      /\ ishex(s[i + 1])
                      /\ ishex(s[i + 2])

\* net/url unescape, second pass, in a query: "%XX" is the byte XX and "+" is
\* a blank
RECURSIVE unescapeBytes(_)
unescapeBytes(s) ==
    IF s = <<>> THEN <<>>
    ELSE IF s[1] = "%"
    THEN <<ByteChar(16 * unhex(s[2]) + unhex(s[3]))>> \o unescapeBytes(SubSeq(s, 4, Len(s)))
    ELSE IF s[1] = "+" THEN <<" ">> \o unescapeBytes(Tail(s))
    ELSE <<s[1]>> \o unescapeBytes(Tail(s))

\* net/url unescape of a string whose escapes are valid: the string itself
\* when it holds no "%" and no "+"
unescape(s) ==
    IF \A i \in 1..Len(s) : s[i] # "%" /\ s[i] # "+" THEN s ELSE unescapeBytes(s)

\* strings.Index(s, sep), counted from 1: the place of the first sep in s, 0
\* when s holds none
Index(s, sep) ==
    LET places == {i \in 1..Len(s) : s[i] = sep}
    IN  IF places = {} THEN 0 ELSE CHOOSE i \in places : \A j \in places : i <= j

\* strings.Cut(s, sep): the characters of s before its first sep, all of s
\* when it holds none
cutBefore(s, sep) ==
    LET k == Index(s, sep) IN IF k = 0 THEN s ELSE SubSeq(s, 1, k - 1)

\* strings.Cut(s, sep): the characters of s after its first sep, none when it
\* holds none
cutAfter(s, sep) ==
    LET k == Index(s, sep) IN IF k = 0 THEN <<>> ELSE SubSeq(s, k + 1, Len(s))

\* the key id of a query, written as one piece or character by character
IdKeys == {<<"id">>, <<"i", "d">>}

\* net/url parseQuery followed by Values.Get("id"): the query is cut at each
\* "&"; a pair that is empty, holds a ";" or a malformed escape is skipped;
\* the pair is cut at its first "=" and key and value are unescaped.  The
\* result is the value of the first pair kept whose key is id, "" when there
\* is none.
RECURSIVE parseQueryGetId(_)
parseQueryGetId(query) ==
    IF query = <<>> THEN <<>>
    ELSE LET pair == cutBefore(query, "&")
             rest == cutAfter(query, "&")
             key == cutBefore(pair, "=")
             value == cutAfter(pair, "=")
         IN  IF \/ \E i \in 1..Len(pair) : pair[i] = ";"
                \/ pair = <<>>
                \/ ~EscapesValid(key)
                \/ ~EscapesValid(value)
             THEN parseQueryGetId(rest)
             ELSE IF unescape(key) \in IdKeys THEN unescape(value)
             ELSE parseQueryGetId(rest)

\* r.URL.Query().Get("id"): the query is what follows the "?" after the
\* path; the first id parameter that parses, unescaped, "" when there is none
QueryGetId(url) ==
    IF Len(url) >= 2 /\ url[2] = "?"
    THEN parseQueryGetId(SubSeq(url, 3, Len(url)))
    ELSE <<>>

\* http.StatusText
StatusText(code) ==
    CASE code = 303 -> "See Other"
      [] code = 404 -> "Not Found"
      [] code = 405 -> "Method Not Allowed"
      [] code = 500 -> "Internal Server Error"
      [] OTHER -> ""

\* the response headers the code sets, "" or <<>> when not set
NoHeaders == [Allow |-> "", ContentType |-> "", XContentTypeOptions |-> "",
              Location |-> <<>>]

\* http.Error(w, text, code) on a response whose headers so far are `hdr`:
\* the two headers it sets, the status, and the text followed by a newline
HttpError(hdr, text, code) ==
    [status |-> code,
     header |-> [hdr EXCEPT !.ContentType = "text/plain; charset=utf-8",
                            !.XContentTypeOptions = "nosniff"],
     body |-> <<text, "\n">>]

\* http.Redirect(w, r, url, code) answering a POST: the Location header and
\* no body
HttpRedirect(hdr, url, code) ==
    [status |-> code, header |-> [hdr EXCEPT !.Location = url], body |-> <<>>]

\* fmt.Fprintf(w, "%+v", snippet) for a *Snippet, with the implicit 200
WriteSnippet(hdr, s) ==
    [status |-> 200, header |-> hdr,
     body |-> <<"&{ID:">> \o FormatInt(s.ID)
              \o <<" title:", s.title, " content:", s.content, " created:">>
              \o FormatInt(s.created) \o <<" expires:">>
              \o FormatInt(s.expires) \o <<"}">>]

----------------------------------------------------------------------------
(* The error helpers: cmd/web/helpers.go.  Each returns the response written *)
(* and the entries written to errorLog.                                      *)

\* serverError sending the error's own message to the client
serverErrorLeakingMessage(hdr, err, caller) ==
    [resp |-> HttpError(hdr, err.msg, 500),
     log |-> <<[calldepth |-> 2, text |-> <<err.msg, "\n", "debug.Stack()">>,
                caller |-> caller]>>]

\* app.serverError(w, err) called from handler `caller`
serverError(hdr, err, caller) ==
    [resp |-> HttpError(hdr, StatusText(500), 500),
     log |-> <<[calldepth |-> 2, text |-> <<err.msg, "\n", "debug.Stack()">>,
                caller |-> caller]>>]

\* app.clientError(w, status)
clientError(hdr, status) ==
    [resp |-> HttpError(hdr, StatusText(status), status), log |-> <<>>]

\* app.notFound(w)
notFound(hdr) == clientError(hdr, 404)

----------------------------------------------------------------------------
(* The handlers: cmd/web/handlers.go.  Each returns the response, the       *)
(* errorLog entries and the repository calls it made.                       *)

\* snippetView rejecting only negative ids (id < 0 for id < 1)
snippetViewAcceptingZero(tbl, t, url, fault) ==
    LET parsed == Atoi(QueryGetId(url))
        id == parsed.n
    IN  IF parsed.err # NilErr \/ id < 0
        THEN [resp |-> notFound(NoHeaders).resp, log |-> <<>>, calls |-> <<>>]
        ELSE LET got == Get(tbl, t, id, fault)
                 call == <<[fn |-> "Get", id |-> id, err |-> got.err]>>
             IN  IF got.err # NilErr
                 THEN IF ErrorsIs(got.err, ErrNoRecord)
                      THEN [resp |-> notFound(NoHeaders).resp, log |-> <<>>,
                            calls |-> call]
                      ELSE LET e == serverError(NoHeaders, got.err, "snippetView")
                           IN  [resp |-> e.resp, log |-> e.log, calls |-> call]
                 ELSE [resp |-> WriteSnippet(NoHeaders, got.s[1]), log |-> <<>>,
                       calls |-> call]

\* snippetView on a request for `url`; `fault` is the storage fault that
\* hits its call of Get, if it makes one
snippetView(tbl, t, url, fault) ==
    LET parsed == Atoi(QueryGetId(url))
        id == parsed.n
    IN  IF parsed.err # NilErr \/ id < 1
        THEN [resp |-> notFound(NoHeaders).resp, log |-> <<>>, calls |-> <<>>]
        ELSE LET got == Get(tbl, t, id, fault)
                 call == <<[fn |-> "Get", id |-> id, err |-> got.err]>>
             IN  IF got.err # NilErr
                 THEN IF ErrorsIs(got.err, ErrNoRecord)
                      THEN [resp |-> notFound(NoHeaders).resp, log |-> <<>>,
                            calls |-> call]
                      ELSE LET e == serverError(NoHeaders, got.err, "snippetView")
                           IN  [resp |-> e.resp, log |-> e.log, calls |-> call]
                 ELSE [resp |-> WriteSnippet(NoHeaders, got.s[1]), log |-> <<>>,
                       calls |-> call]

\* snippetCreate without the return after clientError: the 405 is written,
\* and the handler goes on to insert
snippetCreateNoReturn(tbl, nid, t, method, fault) ==
    LET ins == Insert(tbl, nid, t, SnailTitle, SnailContent, SnailExpires, fault)
        call == <<[fn |-> "Insert", id |-> ins.id, err |-> ins.err]>>
    IN  IF method # "POST"
        THEN [resp |-> clientError([NoHeaders EXCEPT !.Allow = "POST"], 405).resp,
              log |-> <<>>, calls |-> call,
              snippets |-> ins.snippets, nextId |-> ins.nextId]
        ELSE IF ins.err # NilErr
             THEN LET e == serverError(NoHeaders, ins.err, "snippetCreate")
                  IN  [resp |-> e.resp, log |-> e.log, calls |-> call,
                       snippets |-> ins.snippets, nextId |-> ins.nextId]
             ELSE [resp |-> HttpRedirect(NoHeaders, ViewURL(ins.id), 303),
                   log |-> <<>>, calls |-> call,
                   snippets |-> ins.snippets, nextId |-> ins.nextId]

\* snippetCreate on a request with method `method`; also returns the table
\* and counter it leaves
snippetCreate(tbl, nid, t, method, fault) ==
    IF method # "POST"
    THEN [resp |-> clientError([NoHeaders EXCEPT !.Allow = "POST"], 405).resp,
          log |-> <<>>, calls |-> <<>>, snippets |-> tbl, nextId |-> nid]
    ELSE LET ins == Insert(tbl, nid, t, SnailTitle, SnailContent, SnailExpires, fault)
             call == <<[fn |-> "Insert", id |-> ins.id, err |-> ins.err]>>
         IN  IF ins.err # NilErr
             THEN LET e == serverError(NoHeaders, ins.err, "snippetCreate")
                  IN  [resp |-> e.resp, log |-> e.log, calls |-> call,
                       snippets |-> ins.snippets, nextId |-> ins.nextId]
             ELSE [resp |-> HttpRedirect(NoHeaders, ViewURL(ins.id), 303),
                   log |-> <<>>, calls |-> call,
                   snippets |-> ins.snippets, nextId |-> ins.nextId]

----------------------------------------------------------------------------
(* The inputs of the calls and requests *)

\* the table an earlier run left: PreloadRows rows made by snippetCreate,
\* ids 2, 3, ... (the row with id 1 has been deleted since); the oldest was
\* made six days before startup and the others on the day of startup
Preloaded ==
    {InsertRow(i, IF i = 2 THEN 1 - SnailExpires ELSE 0,
               SnailTitle, SnailContent, SnailExpires) : i \in 2..(PreloadRows + 1)}

\* rows inserted since startup, from the AUTO_INCREMENT counter
Inserted(nid) == IF nid > PreloadRows + 1 THEN nid - (PreloadRows + 2) ELSE nid - 1

\* the ids asked for: invalid ones, the oldest and the newest
IdInputs(nid) == {-5, 0, 1, 2, nid - 1, nid}

\* the values of the id parameter, as they stand in the URL, that are not
\* ids: empty, zero, negative, not a number, "+2" (a blank and 2 once
\* unescaped) and a malformed escape
BadIdParams ==
    {<<>>, <<"0">>, <<"-", "5">>, <<"a", "b", "c">>, <<"1", "a">>,
     <<"+", "2">>, <<"%", "2">>}

\* the URLs of view requests: no query at all, a bad id parameter, a decimal
\* id, the id +2 with its sign escaped, and the id 2 after a parameter of
\* another name and an id parameter with a malformed escape
ViewURLs(nid) ==
    {<<ViewPath>>}
    \cup {<<ViewPath, "?", "id", "=">> \o p : p \in BadIdParams}
    \cup {ViewURL(i) : i \in {1, 2, nid - 1, nid}}
    \cup {<<ViewPath, "?", "id", "=", "%", "2", "B", "2">>,
          <<ViewPath, "?", "x", "=", "1", "&", "id", "=", "%", "2", "&", "id", "=", "2">>}

Methods == {"GET", "POST", "PUT", "post"}

\* a fault of Latest and the number of rows mapped before it hits
LatestFaults == [kind : LatestFaultKinds, at : {0, 1, LatestLimit}]

\* the requests served concurrently, each by its own goroutine
Requests == 1..MaxRequests

\* a request not yet received.  pc: where its handler is; res: the sql.Result
\* its Exec returned (<<>> before); stored: the rows its Exec stored; id: the
\* id parsed from its URL or returned by its Insert; counter: the table's
\* AUTO_INCREMENT counter when LastInsertId was called; status, location: the
\* response written
IdleRequest ==
    [pc |-> "idle", kind |-> "none", res |-> <<>>, stored |-> {}, id |-> 0,
     counter |-> 0, status |-> 0, location |-> <<>>]

----------------------------------------------------------------------------
(* The state machine *)

Init ==
    /\ pc = "startup"
    /\ model = <<>>
    /\ \/ snippets = {} /\ nextId = 1
       \/ snippets = Preloaded /\ nextId = PreloadRows + 2
    /\ now = 0
    /\ last = [op |-> "none"]
    /\ redirect = <<>>
    /\ inflight = [r \in Requests |-> IdleRequest]

\* main: the model is built once, and a failure ends the process
DoNewSnippetModel ==
    /\ pc = "startup"
    /\ \E fault \in PrepareFaults :
         LET r == NewSnippetModel("db", fault)
         IN  /\ model' = r.m
             /\ pc' = IF r.err = NilErr THEN "serving" ELSE "fatal"
             /\ last' = [op |-> "NewSnippetModel", fault |-> fault,
                         m |-> r.m, err |-> r.err]
    /\ UNCHANGED <<inflight, snippets, nextId, now, redirect>>

\* a day passes on the database server
Tick(max) ==
    /\ pc = "serving"
    /\ now < max
    /\ now' = now + 1
    /\ last' = [op |-> "Tick"]
    /\ UNCHANGED <<inflight, pc, model, snippets, nextId, redirect>>

TickRepo == Tick(MaxNow)

TickWeb == Tick(MaxWebNow)

\* a direct call of m.Insert
DoInsert ==
    /\ pc = "serving"
    /\ model # <<>>
    /\ Inserted(nextId) < MaxInserts
    /\ \E tc \in InsertTexts, days \in InsertDays, fault \in InsertFaults :
         LET r == Insert(snippets, nextId, now, tc[1], tc[2], days, fault)
         IN  /\ snippets' = r.snippets
             /\ nextId' = r.nextId
             /\ last' = [op |-> "Insert", fault |-> fault,
                         title |-> tc[1], content |-> tc[2], expires |-> days,
                         id |-> r.id, err |-> r.err,
                         added |-> r.snippets \ snippets]
    /\ UNCHANGED <<inflight, pc, model, now, redirect>>

\* the successful Insert that the next call follows with no time elapsed
FollowsInsert ==
    IF last.op = "Insert" /\ last.err = NilErr
    THEN <<[id |-> last.id, title |-> last.title, content |-> last.content,
            expires |-> last.expires]>>
    ELSE <<>>

\* a direct call of m.Get
DoGet ==
    /\ pc = "serving"
    /\ model # <<>>
    /\ \E id \in IdInputs(nextId), fault \in GetFaults :
         LET r == Get(snippets, now, id, fault)
         IN  last' = [op |-> "Get", fault |-> fault, id |-> id,
                      s |-> r.s, err |-> r.err, follows |-> FollowsInsert]
    /\ UNCHANGED <<inflight, pc, model, snippets, nextId, now, redirect>>

\* a direct call of m.Latest
DoLatest ==
    /\ pc = "serving"
    /\ model # <<>>
    /\ \E fault \in LatestFaults :
         LET r == Latest(snippets, now, fault)
         IN  last' = [op |-> "Latest", fault |-> fault,
                      isNil |-> r.isNil, items |-> r.items, err |-> r.err]
    /\ UNCHANGED <<inflight, pc, model, snippets, nextId, now, redirect>>

\* a request routed to snippetView; `followed` tells whether it is the
\* client following the redirect it holds
DoSnippetView ==
    /\ pc = "serving"
    /\ model # <<>>
    /\ \E url \in ViewURLs(nextId), fault \in GetFaults :
         LET r == snippetView(snippets, now, url, fault)
         IN  last' = [op |-> "snippetView", url |-> url,
                      resp |-> r.resp, log |-> r.log, calls |-> r.calls,
                      fault |-> IF r.calls = <<>> THEN "none" ELSE fault,
                      followed |-> redirect # <<>> /\ redirect[1].location = url]
    /\ UNCHANGED <<inflight, pc, model, snippets, nextId, now, redirect>>

\* a request routed to snippetCreate; the client keeps the redirect it gets
DoSnippetCreate ==
    /\ pc = "serving"
    /\ model # <<>>
    /\ Inserted(nextId) < MaxCreates
    /\ \E method \in Methods, fault \in InsertFaults :
         LET r == snippetCreate(snippets, nextId, now, method, fault)
         IN  /\ snippets' = r.snippets
             /\ nextId' = r.nextId
             /\ last' = [op |-> "snippetCreate", method |-> method,
                         resp |-> r.resp, log |-> r.log, calls |-> r.calls,
                         fault |-> IF r.calls = <<>> THEN "none" ELSE fault,
                         added |-> r.snippets \ snippets]
             /\ redirect' = IF r.resp.status = 303
                            THEN <<[location |-> r.resp.header.Location,
                                    at |-> now, added |-> r.snippets \ snippets]>>
                            ELSE redirect
    /\ UNCHANGED <<inflight, pc, model, now>>

\* the repository under direct calls
NextRepo ==
    \/ DoNewSnippetModel
    \/ TickRepo
    \/ DoInsert
    \/ DoGet
    \/ DoLatest

SpecRepo == Init /\ [][NextRepo]_vars

\* the application serving requests
NextWeb ==
    \/ DoNewSnippetModel
    \/ TickWeb
    \/ DoSnippetView
    \/ DoSnippetCreate

SpecWeb == Init /\ [][NextWeb]_vars

----------------------------------------------------------------------------
(* Claims about the repository, checked under SpecRepo *)

\* the rows of the table with id `id` that have not expired
LiveRows(id) == {r \in snippets : r.id = id /\ r.expires > now}

\* C1: every snippet a successful Latest() returns has an expiry strictly
\* later than the time of the call.
C1_LatestExcludesExpired ==
    (last.op = "Latest" /\ last.err = NilErr)
        => \A i \in 1..Len(last.items) : last.items[i].expires > now

\* C2: when no row with the id exists, or the row has expired, a Get whose
\* query is executed returns ErrNoRecord and no snippet; no Get returns a
\* snippet unless the row with that id exists and has not expired.
C2_GetNotFound ==
    last.op = "Get" =>
        /\ (LiveRows(last.id) = {} /\ last.fault # "query")
               => (last.err = ErrNoRecord /\ last.s = <<>>)
        /\ LiveRows(last.id) = {} => (last.s = <<>> /\ last.err # NilErr)
        /\ last.s # <<>>
               => /\ last.err = NilErr
                  /\ \E r \in LiveRows(last.id) :
                        /\ last.s[1].ID = r.id
                        /\ last.s[1].expires = r.expires

\* C2 witness: Get was called for the id of a row that is in the table but
\* has expired, and returned ErrNoRecord.
C2_Witness ==
    /\ last.op = "Get"
    /\ \E r \in snippets : r.id = last.id /\ r.expires <= now
    /\ last.err = ErrNoRecord
    /\ last.s = <<>>

\* C3 as stated: a Get of the id a successful Insert returned, issued with no
\* time elapsed and no storage fault, returns the title and content inserted,
\* whatever the expiry in days.
C3_RoundTripAnyExpiry ==
    (/\ last.op = "Get"
     /\ last.follows # <<>>
     /\ last.id = last.follows[1].id
     /\ last.fault = "none")
        => /\ last.err = NilErr
           /\ last.s # <<>>
           /\ last.s[1].title = last.follows[1].title
           /\ last.s[1].content = last.follows[1].content

\* C3 amended: the round trip holds when the expiry is at least one day; for
\* an expiry of 0 days or less the Get returns ErrNoRecord.
C3_RoundTripPositiveExpiry ==
    (/\ last.op = "Get"
     /\ last.follows # <<>>
     /\ last.id = last.follows[1].id
     /\ last.fault = "none")
        => IF last.follows[1].expires >= 1
           THEN /\ last.err = NilErr
                /\ last.s # <<>>
                /\ last.s[1].ID = last.follows[1].id
                /\ last.s[1].title = last.follows[1].title
                /\ last.s[1].content = last.follows[1].content
           ELSE last.err = ErrNoRecord /\ last.s = <<>>

\* C3 witness: the Get that follows a successful Insert with a positive
\* expiry has returned the inserted title and content.
C3_Witness ==
    /\ last.op = "Get"
    /\ last.follows # <<>>
    /\ last.id = last.follows[1].id
    /\ last.follows[1].expires >= 1
    /\ last.err = NilErr
    /\ last.s # <<>>
    /\ last.s[1].title = "T"
    /\ last.s[1].content = "C"

\* C4: a successful Latest() returns at most 10 snippets, in strictly
\* descending order of id, each a row of the table, and every row of the
\* table it leaves out has a lower id than all 10 it returns.
C4_LatestTopTen ==
    (last.op = "Latest" /\ last.err = NilErr) =>
        LET items == last.items
            n == Len(items)
        IN  /\ n <= 10
            /\ \A i \in 1..n : \A j \in 1..n : i < j => items[i].ID > items[j].ID
            /\ \A i \in 1..n : \E r \in snippets :
                   /\ r.id = items[i].ID
                   /\ r.title = items[i].title
                   /\ r.content = items[i].content
                   /\ r.created = items[i].created
                   /\ r.expires = items[i].expires
            /\ \A r \in snippets :
                   (\A i \in 1..n : items[i].ID # r.id)
                       => (n = 10 /\ \A i \in 1..n : items[i].ID > r.id)

\* C4 witness: Latest() succeeded on a table of more than 10 rows and
\* returned 10 of them.
C4_Witness ==
    /\ last.op = "Latest"
    /\ last.err = NilErr
    /\ Cardinality(snippets) > 10
    /\ Len(last.items) = 10

\* the rows the latest statement returns when it runs to its end
LatestRowCount == IF Cardinality(snippets) < 10 THEN Cardinality(snippets) ELSE 10

\* C9: NewSnippetModel, Insert, Get and Latest return a non-nil error with the
\* zero result on every failure, a real result whenever the error is nil, and
\* the driver's error whenever a driver call fails.
C9_ErrorsPairedWithZeroResults ==
    /\ last.op = "NewSnippetModel" =>
           /\ last.err # NilErr => last.m = <<>>
           /\ last.err = NilErr => last.m # <<>>
           /\ last.fault # 0 => last.err.kind = "driver"
    /\ last.op = "Insert" =>
           /\ last.err # NilErr => last.id = 0
           /\ last.err = NilErr =>
                  (last.id >= 1 /\ \E r \in last.added : r.id = last.id)
           /\ last.fault # "none" => last.err.kind = "driver"
    /\ last.op = "Get" =>
           /\ last.err # NilErr => last.s = <<>>
           /\ last.err = NilErr => last.s # <<>>
           /\ last.fault = "query" => last.err.kind = "driver"
           /\ (last.fault = "scan" /\ LiveRows(last.id) # {})
                  => last.err.kind = "driver"
    /\ last.op = "Latest" =>
           /\ last.err # NilErr => (last.isNil /\ last.items = <<>>)
           /\ last.err = NilErr => ~last.isNil
           /\ last.fault.kind = "query" => last.err.kind = "driver"
           /\ (last.fault.kind = "scan" /\ last.fault.at < LatestRowCount)
                  => last.err.kind = "driver"
           /\ (last.fault.kind = "rowsErr" /\ last.fault.at <= LatestRowCount)
                  => last.err.kind = "driver"

\* C9 witness: Latest() mapped a row, then the cursor ended with its error
\* set, and the call returned that error with a nil slice.
C9_Witness ==
    /\ last.op = "Latest"
    /\ last.fault = [kind |-> "rowsErr", at |-> 1]
    /\ Cardinality(snippets) >= 1
    /\ last.err = DriverErr("rows.Err")
    /\ last.isNil

----------------------------------------------------------------------------
(* Claims about the handlers, checked under SpecWeb *)

\* the URLs whose id parameter is missing or, once unescaped, non-numeric,
\* zero or negative
BadViewURLs ==
    {<<ViewPath>>} \cup {<<ViewPath, "?", "id", "=">> \o p : p \in BadIdParams}

\* the 404 response a client sees
NotFoundResponse ==
    [status |-> 404,
     header |-> [Allow |-> "", ContentType |-> "text/plain; charset=utf-8",
                 XContentTypeOptions |-> "nosniff", Location |-> <<>>],
     body |-> <<"Not Found", "\n">>]

\* C5: a view request whose id parameter is missing, non-numeric, zero or
\* negative gets the same 404 response as a request for a well-formed id that
\* is absent or expired, and gets it without a call of Get.
C5_BadIdLooksNotFound ==
    last.op = "snippetView" =>
        /\ last.url \in BadViewURLs
               => (last.resp = NotFoundResponse /\ last.calls = <<>>)
        /\ (/\ last.url \notin BadViewURLs
            /\ last.fault = "none"
            /\ LiveRows(last.calls[1].id) = {})
               => (last.resp = NotFoundResponse /\ last.calls # <<>>)

\* C5 witness: a view request with id=0 was answered 404 with no call of Get,
\* while the table holds an expired row that a well-formed request could name.
C5_Witness ==
    /\ last.op = "snippetView"
    /\ last.url = <<ViewPath, "?", "id", "=", "0">>
    /\ last.resp.status = 404
    /\ last.calls = <<>>
    /\ \E r \in snippets : r.expires <= now

\* C6: a create request with a method other than POST gets 405 with Allow:
\* POST, makes no call of Insert and adds no row to the table.
C6_WrongMethodInsertsNothing ==
    (last.op = "snippetCreate" /\ last.method # "POST") =>
        /\ last.resp.status = 405
        /\ last.resp.header.Allow = "POST"
        /\ last.resp.body = <<"Method Not Allowed", "\n">>
        /\ last.calls = <<>>
        /\ last.added = {}

\* C6 witness: a GET of the create endpoint was answered 405.
C6_Witness ==
    /\ last.op = "snippetCreate"
    /\ last.method = "GET"
    /\ last.resp.status = 405
    /\ last.added = {}

\* C7: a successful create answers 303 with the view URL of the id Insert
\* returned, which is the id of the one row that request added; and a view
\* request for the URL of the redirect the client holds, made before the
\* seven days are over and hit by no storage fault, is answered 200 with the
\* id, title and content of that row.
C7_RedirectResolves ==
    /\ (last.op = "snippetCreate" /\ last.method = "POST" /\ last.fault = "none") =>
           /\ last.resp.status = 303
           /\ \E r \in last.added :
                  /\ last.added = {r}
                  /\ r \in snippets
                  /\ last.calls[1].id = r.id
                  /\ last.resp.header.Location = <<ViewPath, "?", "id", "=">> \o Digits(r.id)
                  /\ r.title = SnailTitle
                  /\ r.content = SnailContent
    /\ (/\ last.op = "snippetView"
        /\ last.followed
        /\ last.fault = "none"
        /\ now < redirect[1].at + 7) =>
           /\ last.resp.status = 200
           /\ \E r \in redirect[1].added :
                  last.resp.body =
                      <<"&{ID:">> \o Digits(r.id)
                      \o <<" title:", SnailTitle, " content:", SnailContent, " created:">>
                      \o Digits(r.created) \o <<" expires:">>
                      \o Digits(r.expires) \o <<"}">>

\* C7 witness: days after a successful create, the client followed the
\* redirect and was answered 200.
C7_Witness ==
    /\ last.op = "snippetView"
    /\ last.followed
    /\ now > redirect[1].at
    /\ last.resp.status = 200

\* C8: when the Get or Insert a handler calls fails with an error other than
\* ErrNoRecord, the client gets 500 with the generic text and nothing of the
\* error's message, and one errorLog entry holds the error's message.
C8_StorageFaultIs500 ==
    (/\ last.op \in {"snippetView", "snippetCreate"}
     /\ last.calls # <<>>
     /\ last.calls[1].err \notin {NilErr, ErrNoRecord}) =>
        /\ last.resp.status = 500
        /\ last.resp.body = <<"Internal Server Error", "\n">>
        /\ \A i \in 1..Len(last.resp.body) : last.resp.body[i] # last.calls[1].err.msg
        /\ last.resp.header.Location = <<>>
        /\ Len(last.log) = 1
        /\ last.log[1].text[1] = last.calls[1].err.msg
        /\ last.log[1].caller = last.op

\* C8 witness: the Insert of a create request failed and the client got 500.
C8_Witness ==
    /\ last.op = "snippetCreate"
    /\ last.fault = "exec"
    /\ last.resp.status = 500
    /\ last.log # <<>>

\* C10: the Get a view request makes returns ErrNoRecord exactly when its
\* query is executed and matches no row; the handler answers 404 exactly when
\* Get returned ErrNoRecord and 500 exactly when Get returned another error,
\* which happens only under a storage fault.
C10_NotFoundNeverConflated ==
    (last.op = "snippetView" /\ last.calls # <<>>) =>
        LET err == last.calls[1].err
            zero == LiveRows(last.calls[1].id) = {}
        IN  /\ err = ErrNoRecord <=> (last.fault # "query" /\ zero)
            /\ last.resp.status = 404 <=> err = ErrNoRecord
            /\ last.resp.status = 500 <=> err \notin {NilErr, ErrNoRecord}
            /\ last.resp.status = 500 => last.fault # "none"
            /\ last.resp.status = 200 <=> err = NilErr

\* C10 witness: the query for an id that matches no row failed, and the
\* client got 500, not 404.
C10_Witness ==
    /\ last.op = "snippetView"
    /\ last.calls # <<>>
    /\ LiveRows(last.calls[1].id) = {}
    /\ last.fault = "query"
    /\ last.resp.status = 500

----------------------------------------------------------------------------
(* The cursor of Latest, checked under SpecRepo *)

\* C11: when the Scan of a row fails, or the cursor ends with its error set,
\* after any number of rows were mapped, Latest() returns the error and a nil
\* slice holding none of them; otherwise it maps every row of the result set,
\* and on an empty result set it returns an empty slice that is not nil, with
\* a nil error.
C11_LatestCursorErrors ==
    last.op = "Latest" =>
        LET n == LatestRowCount
            failing == \/ last.fault.kind = "query"
                       \/ last.fault.kind = "scan" /\ last.fault.at < n
                       \/ last.fault.kind = "rowsErr" /\ last.fault.at <= n
        IN  /\ failing => /\ last.err.kind = "driver"
                          /\ last.isNil
                          /\ Len(last.items) = 0
            /\ ~failing => /\ last.err = NilErr
                           /\ ~last.isNil
                           /\ Len(last.items) = n
            /\ (~failing /\ snippets = {}) => (last.items = <<>> /\ ~last.isNil)

\* C11 witness: the cursor ended with its error set after all ten rows of the
\* result set were mapped, and Latest() returned the error and no row.
C11_Witness ==
    /\ last.op = "Latest"
    /\ last.fault = [kind |-> "rowsErr", at |-> 10]
    /\ Cardinality(snippets) >= 10
    /\ last.err = DriverErr("rows.Err")
    /\ last.isNil
    /\ last.items = <<>>

----------------------------------------------------------------------------
(* Requests served concurrently.  net/http runs each handler in a goroutine *)
(* of its own; a handler's calls of the database are the points at which    *)
(* the handlers interleave.  Insert makes two: Exec, which stores the row   *)
(* and returns the sql.Result, and LastInsertId on that result.             *)

\* the methods and URLs of the concurrent requests
CreateMethods == {"POST", "GET"}
ConcViewURLs(nid) == {<<ViewPath, "?", "id", "=", "0">>, ViewURL(nid - 1), ViewURL(nid)}

\* a response with `status`, and `location` when it is a redirect
Answered(req, status, location) ==
    [req EXCEPT !.pc = "done", !.status = status, !.location = location]

\* snippetCreate up to its call of Insert: the method test
ReqCreate(r) ==
    /\ pc = "serving"
    /\ model # <<>>
    /\ inflight[r].pc = "idle"
    /\ \E method \in CreateMethods :
         IF method # "POST"
         THEN inflight' = [inflight EXCEPT ![r] =
                  Answered([@ EXCEPT !.kind = "create"],
                           clientError([NoHeaders EXCEPT !.Allow = "POST"], 405).resp.status,
                           <<>>)]
         ELSE inflight' = [inflight EXCEPT ![r] = [@ EXCEPT !.kind = "create", !.pc = "exec"]]
    /\ UNCHANGED <<pc, model, snippets, nextId, now, last, redirect>>

\* m.InsertStmt.Exec(title, content, expires): the row is stored under the
\* next id, and the result of this Exec carries that id; on an error the
\* handler answers 500
ReqExec(r) ==
    /\ inflight[r].pc = "exec"
    /\ \E fault \in {"none", "exec"} :
         IF fault = "exec"
         THEN /\ inflight' = [inflight EXCEPT ![r] =
                      Answered(@, serverError(NoHeaders, DriverErr("exec failed"),
                                              "snippetCreate").resp.status, <<>>)]
              /\ UNCHANGED <<snippets, nextId>>
         ELSE LET row == InsertRow(nextId, now, SnailTitle, SnailContent, SnailExpires)
              IN  /\ snippets' = snippets \cup {row}
                  /\ nextId' = nextId + 1
                  /\ inflight' = [inflight EXCEPT ![r] =
                         [@ EXCEPT !.pc = "lastInsertId",
                                   !.res = <<[lastInsertId |-> nextId]>>,
                                   !.stored = {row}]]
    /\ UNCHANGED <<pc, model, now, last, redirect>>

\* ReqLastInsertId reading the id from the table's counter, which every
\* connection advances, instead of from the result of its own Exec
ReqLastInsertIdFromCounter(r) ==
    /\ inflight[r].pc = "lastInsertId"
    /\ \E fault \in {"none", "lastInsertId"} :
         IF fault = "lastInsertId"
         THEN inflight' = [inflight EXCEPT ![r] =
                  Answered(@, serverError(NoHeaders, DriverErr("LastInsertId failed"),
                                          "snippetCreate").resp.status, <<>>)]
         ELSE LET id == IntOfInt64(nextId - 1)
                  resp == HttpRedirect(NoHeaders, ViewURL(id), 303)
              IN  inflight' = [inflight EXCEPT ![r] =
                      Answered([@ EXCEPT !.id = id, !.counter = nextId],
                               resp.status, resp.header.Location)]
    /\ UNCHANGED <<pc, model, snippets, nextId, now, last, redirect>>

\* result.LastInsertId(), return int(id), nil, and the rest of snippetCreate:
\* the redirect to the view URL of that id, or 500 on an error
ReqLastInsertId(r) ==
    /\ inflight[r].pc = "lastInsertId"
    /\ \E fault \in {"none", "lastInsertId"} :
         IF fault = "lastInsertId"
         THEN inflight' = [inflight EXCEPT ![r] =
                  Answered(@, serverError(NoHeaders, DriverErr("LastInsertId failed"),
                                          "snippetCreate").resp.status, <<>>)]
         ELSE LET id == IntOfInt64(inflight[r].res[1].lastInsertId)
                  resp == HttpRedirect(NoHeaders, ViewURL(id), 303)
              IN  inflight' = [inflight EXCEPT ![r] =
                      Answered([@ EXCEPT !.id = id, !.counter = nextId],
                               resp.status, resp.header.Location)]
    /\ UNCHANGED <<pc, model, snippets, nextId, now, last, redirect>>

\* snippetView up to its call of Get: the id parameter is parsed and tested
ReqView(r) ==
    /\ pc = "serving"
    /\ model # <<>>
    /\ inflight[r].pc = "idle"
    /\ \E url \in ConcViewURLs(nextId) :
         LET parsed == Atoi(QueryGetId(url))
         IN  IF parsed.err # NilErr \/ parsed.n < 1
             THEN inflight' = [inflight EXCEPT ![r] =
                      Answered([@ EXCEPT !.kind = "view"],
                               notFound(NoHeaders).resp.status, <<>>)]
             ELSE inflight' = [inflight EXCEPT ![r] =
                      [@ EXCEPT !.kind = "view", !.pc = "get", !.id = parsed.n]]
    /\ UNCHANGED <<pc, model, snippets, nextId, now, last, redirect>>

\* ReqGet preparing the get statement anew on every call and keeping it in
\* the model
ReqGetRepreparing(r) ==
    /\ inflight[r].pc = "get"
    /\ \E fault \in GetFaults :
         LET got == Get(snippets, now, inflight[r].id, fault)
             status == IF got.err = NilErr THEN 200
                       ELSE IF ErrorsIs(got.err, ErrNoRecord)
                       THEN notFound(NoHeaders).resp.status
                       ELSE serverError(NoHeaders, got.err, "snippetView").resp.status
         IN  inflight' = [inflight EXCEPT ![r] = Answered([@ EXCEPT !.id = 0], status, <<>>)]
    /\ model' = <<[model[1] EXCEPT !.GetStmt = "getStmt prepared again"]>>
    /\ UNCHANGED <<pc, snippets, nextId, now, last, redirect>>

\* m.GetStmt.QueryRow(id) and row.Scan, one round trip to the database, and
\* the rest of snippetView
ReqGet(r) ==
    /\ inflight[r].pc = "get"
    /\ \E fault \in GetFaults :
         LET got == Get(snippets, now, inflight[r].id, fault)
             status == IF got.err = NilErr THEN 200
                       ELSE IF ErrorsIs(got.err, ErrNoRecord)
                       THEN notFound(NoHeaders).resp.status
                       ELSE serverError(NoHeaders, got.err, "snippetView").resp.status
         IN  inflight' = [inflight EXCEPT ![r] = Answered([@ EXCEPT !.id = 0], status, <<>>)]
    /\ UNCHANGED <<pc, model, snippets, nextId, now, last, redirect>>

\* the application serving requests concurrently, with Latest called beside
\* them
NextConc ==
    \/ DoNewSnippetModel
    \/ DoLatest
    \/ \E r \in Requests : ReqCreate(r)
    \/ \E r \in Requests : ReqExec(r)
    \/ \E r \in Requests : ReqLastInsertId(r)
    \/ \E r \in Requests : ReqView(r)
    \/ \E r \in Requests : ReqGet(r)

SpecConc == Init /\ [][NextConc]_vars

----------------------------------------------------------------------------
(* Claims about concurrent requests (SpecConc) *)

\* the create requests that were answered with the redirect
Redirected == {r \in Requests : inflight[r].pc = "done" /\ inflight[r].status = 303}

\* C13: under any interleaving of concurrent create requests, a create that
\* succeeds is redirected to the view URL of the row that this same request
\* stored: the id its Insert returned is the id of its own row, which is in
\* the table, and no two creates receive the same id or an id of a row that
\* another request stored.
C13_CreateGetsOwnId ==
    /\ \A r \in Redirected :
         /\ Cardinality(inflight[r].stored) = 1
         /\ \A row \in inflight[r].stored :
              /\ row \in snippets
              /\ inflight[r].id = row.id
              /\ Atoi(QueryGetId(inflight[r].location)) = [n |-> row.id, err |-> NilErr]
    /\ \A r1, r2 \in Redirected :
         r1 # r2 =>
             /\ inflight[r1].id # inflight[r2].id
             /\ inflight[r1].location # inflight[r2].location
             /\ \A row \in inflight[r2].stored : inflight[r1].id # row.id

\* two creates were redirected, and one of them read its id only after the
\* other had stored its row
C13_Witness ==
    \E r1, r2 \in Redirected :
        /\ r1 # r2
        /\ inflight[r1].id < inflight[r2].id
        /\ inflight[r1].counter > inflight[r2].id

\* the model as NewSnippetModel builds it: the pool handle and the three plans
PreparedModel == NewSnippetModel("db", 0).m

\* C12: the three query plans and the pool handle are set exactly once, by
\* NewSnippetModel at startup, and every later step (Insert, Get, Latest and
\* the handlers, interleaved across concurrent requests) leaves InsertStmt,
\* GetStmt, LatestStmt and DB as they were.
C12_PlansSetOnce ==
    [][/\ model # <<>> => model' = model
       /\ model' # model => /\ pc = "startup"
                            /\ model = <<>>
                            /\ model' = PreparedModel
                            /\ pc' = "serving"]_vars

\* a create was redirected, a view was answered with the snippet and Latest
\* was called, all on the model built at startup
C12_Witness ==
    /\ model = PreparedModel
    /\ last.op = "Latest"
    /\ last.err = NilErr
    /\ \E r1, r2 \in Requests :
         /\ inflight[r1].kind = "create"
         /\ inflight[r1].pc = "done"
         /\ inflight[r1].status = 303
         /\ inflight[r2].kind = "view"
         /\ inflight[r2].pc = "done"
         /\ inflight[r2].status = 200

====
